---- MODULE Spec2Model ----
(***************************************************************************)
(* Double-array trie of src/tdict.c and src/tdict.h: the two cell arrays   *)
(* base[] / check[] with their embedded free ring, the tail pool with its  *)
(* free chain, and the public operations trieAdd, trieFind, trieDelete,    *)
(* trieReplace, triePrefixSearch and trieNext.                             *)
(*                                                                         *)
(* Pointers are modelled by indices: a trieEntry pointer is the exposed    *)
(* tail index (slot + TAIL_START_BLOCKNO), 0 is the null pointer.  A C     *)
(* string is a sequence of bytes ending with 0.                            *)
(***************************************************************************)
EXTENDS Integers, Sequences, FiniteSets, TLC

(* ------------------------------ tdict.h ------------------------------ *)
TDICT_OK == 0
TDICT_ERR == 1
TRIE_CHAR_MAX == 255
ALPHA_CHAR_ERROR == -1
TRIE_INDEX_ERROR == 0
TRIE_INDEX_HALFMAX == 1073741823
TRIE_INDEX_MAX == 2147483647
DA_POOL_FREE == 1
DA_POOL_ROOT == 2
DA_POOL_BEGIN == 3
TAIL_START_BLOCKNO == 2
\* 0xDAFCDAFC does not fit the checker's 32-bit integers; cell 0 is never
\* read by any operation, so its low 31 bits stand for it.
DA_SIGNATURE == 1526520572

(* ------------------------------ bounds -------------------------------- *)
\* longest external key, in bytes
MaxKeyLen == 2
\* most keys the reference map holds at once
MaxKeys == 2
\* values are 1..NumVals
NumVals == 2
\* add is not called once the tail pool holds this many slots in use
MaxUsed == 3
\* mutating calls made on one trie
MaxOps == 3
\* index ceiling of the small build in which the double array fills up
SmallIndexMax == 7

(* ------------------------ pointers and markers ------------------------ *)
\* the null trieEntry pointer / null void* value
NULL == 0
\* a null suffix pointer (a real suffix always holds its terminator)
NullStr == << >>
\* a pointer or value field of memory that zrealloc returned and nobody wrote
Uninit == -1
UninitStr == << -1 >>
\* a null key pointer (a key never holds a 0 byte)
NullKey == << 0 >>
UninitKey == << -1 >>

(* --------------------------- alphabet map ----------------------------- *)
\* type->range configurations used at trieCreate: one of total width 255
\* (the largest the header allows) and a narrow one of two ranges.
WideRange == << [begin |-> 1, end |-> 255] >>
NarrowRange == << [begin |-> 254, end |-> 255], [begin |-> 1, end |-> 1] >>
Ranges == { WideRange, NarrowRange }

\* bytes the keys of the model are made of, and one byte outside NarrowRange
KeyBytes == { 1, 254, 255 }
BadByte == 7

RECURSIVE SeqsUpTo(_, _)
SeqsUpTo(S, n) ==
    IF n = 0 THEN { << >> }
    ELSE LET shorter == SeqsUpTo(S, n - 1)
         IN  shorter \cup { Append(q, b) : q \in shorter, b \in S }

Keys == SeqsUpTo(KeyBytes, MaxKeyLen)
BadKeys == { k \in SeqsUpTo(KeyBytes \cup { BadByte }, MaxKeyLen) :
                \E i \in 1..Len(k) : k[i] = BadByte }
Vals == 1..NumVals

\* internal symbol of byte b: 1 + widths of the earlier ranges + offset in
\* its range; ALPHA_CHAR_ERROR when no range holds b
RECURSIVE alphaCharToTrie(_, _, _, _)
alphaCharToTrie(rng, i, before, b) ==
    IF i > Len(rng) THEN ALPHA_CHAR_ERROR
    ELSE IF rng[i].begin <= b /\ b <= rng[i].end
         THEN 1 + before + (b - rng[i].begin)
         ELSE alphaCharToTrie(rng, i + 1, before + (rng[i].end - rng[i].begin + 1), b)

\* the failure sentinel of the encoder: a null TrieChar pointer
EncodeFail == NullStr

encodingFunction(rng, key) ==
    LET syms == [i \in 1..Len(key) |-> alphaCharToTrie(rng, 1, 0, key[i])]
    IN  IF \E i \in 1..Len(key) : syms[i] = ALPHA_CHAR_ERROR
        THEN EncodeFail
        ELSE Append(syms, 0)

(* ------------------------ state of one trie --------------------------- *)
VARIABLES
    range,       \* type->range, fixed at trieCreate
    base,        \* t->base,  a function on 0..dasize-1
    check,       \* t->check, a function on 0..dasize-1
    dasize,      \* t->dasize
    used,        \* t->used
    tails,       \* t->tails, a function on 0..tailsize-1 of trieEntry records
    tailsize,    \* t->tailsize
    first_free,  \* t->first_free
    ref,         \* reference key -> value map run beside the trie
    iter,        \* the live trieIterator, or NoIter
    last,        \* the last call: what was asked and what it returned
    alive,       \* FALSE once the process has died on a wild memory access
    ops,         \* number of mutating calls made so far
    index_max,   \* the index ceiling the library was built with
    type,        \* t->type: which of the optional callbacks are present
    owed         \* keys and values handed to the trie and not yet destroyed

trieVars == << base, check, dasize, used, tails, tailsize, first_free >>
vars == << range, base, check, dasize, used, tails, tailsize, first_free,
           ref, iter, last, alive, ops, index_max, type, owed >>

\* the ceiling and its half as the code reads them: TRIE_INDEX_MAX and
\* TRIE_INDEX_HALFMAX = TRIE_INDEX_MAX >> 1 of the header, or a build with
\* a small ceiling in which the double array can fill up
IndexMax == index_max
IndexHalfMax == index_max \div 2

\* the trie struct as one value.  Two fields observe the call in progress:
\* log is the sequence of destructor callbacks it has invoked, reloc tells
\* whether it has moved the children of a node (_trieReIndex).
Trie == [ base |-> base, check |-> check, dasize |-> dasize, used |-> used,
          tails |-> tails, tailsize |-> tailsize, first_free |-> first_free,
          type |-> type, log |-> << >>, reloc |-> FALSE ]

\* the trie struct as the step leaves it
TrieAfter == [ base |-> base', check |-> check', dasize |-> dasize', used |-> used',
               tails |-> tails', tailsize |-> tailsize', first_free |-> first_free',
               type |-> type, log |-> << >>, reloc |-> FALSE ]

(* ----------------------- tdict.h access macros ------------------------ *)
\* (i) < (t)->dasize compares as unsigned long: a negative i is out of range
InDA(T, i) == i >= 0 /\ i < T.dasize
InTails(T, i) == i - TAIL_START_BLOCKNO >= 0 /\ i - TAIL_START_BLOCKNO < T.tailsize

trieSetBase(T, i, val) == IF InDA(T, i) THEN [T EXCEPT !.base[i] = val] ELSE T
trieSetCheck(T, i, val) == IF InDA(T, i) THEN [T EXCEPT !.check[i] = val] ELSE T
trieGetBase(T, i) == IF InDA(T, i) THEN T.base[i] ELSE TRIE_INDEX_ERROR
trieGetCheck(T, i) == IF InDA(T, i) THEN T.check[i] ELSE TRIE_INDEX_ERROR
trieBranchEnd(T, i) == IF InDA(T, i) THEN T.base[i] < 0 ELSE FALSE
trieGetTailIndex(T, i) == IF InDA(T, i) THEN -(T.base[i]) ELSE TRIE_INDEX_ERROR
trieSetTailIndex(T, i, val) == IF InDA(T, i) THEN [T EXCEPT !.base[i] = -val] ELSE T
trieGetTailSuffix(T, i) ==
    IF InTails(T, i) THEN T.tails[i - TAIL_START_BLOCKNO].suffix ELSE NullStr
trieGetTrieEntry(T, i) == IF InTails(T, i) THEN i ELSE NULL

(* --------------------------- _trieSetup ------------------------------- *)
trieSetup ==
    [ base |-> (0 :> DA_SIGNATURE) @@ (1 :> -1) @@ (2 :> DA_POOL_BEGIN),
      check |-> (0 :> DA_POOL_BEGIN) @@ (1 :> -1) @@ (2 :> 0),
      dasize |-> DA_POOL_BEGIN,
      used |-> 0,
      tails |-> << >>,
      tailsize |-> 0,
      first_free |-> 0,
      log |-> << >>,
      reloc |-> FALSE ]

(* -------------------------- _trieNextPower ---------------------------- *)
RECURSIVE NextPowerLoop(_, _)
NextPowerLoop(i, size) == IF i > size THEN i ELSE NextPowerLoop(2 * i, size)

_trieNextPower(size) ==
    IF size >= IndexHalfMax THEN IndexMax
    ELSE NextPowerLoop(DA_POOL_BEGIN, size)

\* the element of a one-element set: Only({ e(x) : x \in { v } }) is e(v),
\* with the result v of a call computed once and then used as a value
Only(S) == CHOOSE x \in S : TRUE

(* ----------------------------- trieExpand ----------------------------- *)
\* trieExpand without the link from the old last ring cell to the first
\* new cell
trieExpandUnlinked(T, size) ==
    IF size <= 0 \/ IndexMax <= size THEN [t |-> T, r |-> TDICT_ERR]
    ELSE IF T.dasize >= size THEN [t |-> T, r |-> TDICT_OK]
    ELSE
      LET realsize == _trieNextPower(size)
          new_begin == T.dasize
          T1 == [T EXCEPT
                   !.dasize = realsize,
                   !.base = [i \in 0..(realsize - 1) |->
                               IF i < new_begin THEN T.base[i]
                               ELSE IF i = new_begin THEN Uninit
                               ELSE -(i - 1)],
                   !.check = [i \in 0..(realsize - 1) |->
                               IF i < new_begin THEN T.check[i]
                               ELSE IF i = realsize - 1 THEN Uninit
                               ELSE -(i + 1)]]
          free_tail == -trieGetBase(T1, DA_POOL_FREE)
          T3 == trieSetBase(T1, new_begin, -free_tail)
          T4 == trieSetCheck(T3, realsize - 1, -DA_POOL_FREE)
          T5 == trieSetBase(T4, DA_POOL_FREE, -(realsize - 1))
          T6 == [T5 EXCEPT !.check[0] = T5.dasize]
      IN  [t |-> T6, r |-> TDICT_OK]

\* returns [t, r]: the trie after the call and TDICT_OK / TDICT_ERR
trieExpand(T, size) ==
    IF size <= 0 \/ IndexMax <= size THEN [t |-> T, r |-> TDICT_ERR]
    ELSE IF T.dasize >= size THEN [t |-> T, r |-> TDICT_OK]
    ELSE
      LET realsize == _trieNextPower(size)
          new_begin == T.dasize
          \* realloc, then the loop linking new_begin .. realsize-1
          T1 == [T EXCEPT
                   !.dasize = realsize,
                   !.base = [i \in 0..(realsize - 1) |->
                               IF i < new_begin THEN T.base[i]
                               ELSE IF i = new_begin THEN Uninit
                               ELSE -(i - 1)],
                   !.check = [i \in 0..(realsize - 1) |->
                               IF i < new_begin THEN T.check[i]
                               ELSE IF i = realsize - 1 THEN Uninit
                               ELSE -(i + 1)]]
          \* merge the new circular list to the old
          free_tail == -trieGetBase(T1, DA_POOL_FREE)
          T2 == trieSetCheck(T1, free_tail, -new_begin)
          T3 == trieSetBase(T2, new_begin, -free_tail)
          T4 == trieSetCheck(T3, realsize - 1, -DA_POOL_FREE)
          T5 == trieSetBase(T4, DA_POOL_FREE, -(realsize - 1))
          \* update header cell
          T6 == [T5 EXCEPT !.check[0] = T5.dasize]
      IN  [t |-> T6, r |-> TDICT_OK]

(* ----------------------- free ring primitives ------------------------- *)
_daAssignCell(T, s) ==
    LET prev == -trieGetBase(T, s)
        next == -trieGetCheck(T, s)
        T1 == trieSetCheck(T, prev, -next)
    IN  trieSetBase(T1, next, -prev)

\* one turn of "while(i != DA_POOL_FREE && i < lim) i = -trieGetCheck(t, i)";
\* a loop that has ended stays where it is
RingStep(T, i, lim) ==
    IF i /= DA_POOL_FREE /\ i < lim THEN -trieGetCheck(T, i) ELSE i

\* n turns of the loop, by halving so that a loop over the whole ring needs
\* only a shallow evaluation
RECURSIVE RingTurns(_, _, _, _)
RingTurns(T, i, lim, n) ==
    IF n = 0 THEN i
    ELSE IF n = 1 THEN RingStep(T, i, lim)
    ELSE LET half == RingTurns(T, i, lim, n \div 2)
         IN  \* the test makes the first half a value before the second starts
             IF half = half THEN RingTurns(T, half, lim, n - (n \div 2)) ELSE i

\* the loop run to its end: a ring has at most dasize cells
RingScan(T, i, lim) == RingTurns(T, i, lim, T.dasize)

\* the scan of _daFreeCell without the test i < s: it ends at cell 1, and
\* the cell is put at the end of the ring
FreeCellScanToEnd(T, i, s) == RingScan(T, i, T.dasize)

\* the scan of _daFreeCell for the first ring cell not below s
FreeCellScan(T, i, s) == RingScan(T, i, s)

\* _daFreeCell without its last statement: the cell after s keeps its old
\* back link
_daFreeCellOneWay(T, s) ==
    LET i == FreeCellScan(T, -trieGetCheck(T, DA_POOL_FREE), s)
        prev == -trieGetBase(T, i)
        T1 == trieSetCheck(T, s, -i)
        T2 == trieSetBase(T1, s, -prev)
    IN  trieSetCheck(T2, prev, -s)

_daFreeCell(T, s) ==
    LET i == FreeCellScan(T, -trieGetCheck(T, DA_POOL_FREE), s)
        prev == -trieGetBase(T, i)
        T1 == trieSetCheck(T, s, -i)
        T2 == trieSetBase(T1, s, -prev)
        T3 == trieSetCheck(T2, prev, -s)
    IN  trieSetBase(T3, i, -s)

\* _daPrepareSpace without the test that the cell is free
_daPrepareSpaceAnyCell(T, s) ==
    Only({ [t |-> e.t, r |-> IF e.r = TDICT_OK THEN 1 ELSE 0]
           : e \in { trieExpand(T, s) } })

\* returns [t, r]: r is 1 when cell s exists and is free after growing
_daPrepareSpace(T, s) ==
    Only({ [t |-> e.t,
            r |-> IF e.r = TDICT_OK /\ trieGetCheck(e.t, s) < 0 THEN 1 ELSE 0]
           : e \in { trieExpand(T, s) } })

(* ---------------------------- Symbols --------------------------------- *)
\* a Symbols value is the sequence symbols[0 .. num_symbols-1]
RECURSIVE SortedSeq(_)
SortedSeq(S) ==
    IF S = {} THEN << >>
    ELSE LET m == CHOOSE x \in S : \A y \in S : x <= y
         IN  << m >> \o SortedSeq(S \ { m })

SeqRange(q) == { q[i] : i \in 1..Len(q) }

\* binary search insertion: keeps the order, drops a duplicate
symbols_add(syms, c) == SortedSeq(SeqRange(syms) \cup { c })

MIN_VAL(a, b) == IF a < b THEN a ELSE b

(* ----------------------- children of a node --------------------------- *)
_daHasChildren(T, s) ==
    LET b == trieGetBase(T, s)
        max_c == MIN_VAL(T.dasize, MIN_VAL(TRIE_CHAR_MAX, IndexMax - b))
    IN  IF TRIE_INDEX_ERROR = b \/ b < 0 THEN FALSE
        ELSE \E c \in 0..(max_c - 1) : trieGetCheck(T, b + c) = s

RECURSIVE _daPrune(_, _, _)
_daPrune(T, p, s) ==
    IF p /= s /\ ~_daHasChildren(T, s)
    THEN LET parent == trieGetCheck(T, s)
         IN  _daPrune(_daFreeCell(T, s), p, parent)
    ELSE T

_daFillSymbols(T, s) ==
    LET b == trieGetBase(T, s)
        max_c == MIN_VAL(MIN_VAL(TRIE_CHAR_MAX, IndexMax - b), T.dasize)
    IN  SortedSeq({ c \in 0..(max_c - 1) : trieGetCheck(T, b + c) = s })

\* returns [t, r]: TDICT_OK when every cell b + symbols[i] is free
RECURSIVE _daFitSymbols(_, _, _, _)
_daFitSymbols(T, b, symbols, i) ==
    IF i > Len(symbols) THEN [t |-> T, r |-> TDICT_OK]
    ELSE IF b > IndexMax - symbols[i] THEN [t |-> T, r |-> TDICT_ERR]
    ELSE Only({ IF ps.r = 0 THEN [t |-> ps.t, r |-> TDICT_ERR]
                ELSE _daFitSymbols(ps.t, b, symbols, i + 1)
                : ps \in { _daPrepareSpace(T, b + symbols[i]) } })

\* first loop of _daFindFreeBase: the first ring cell at or past lim
FindFirstFree(T, s, lim) == RingScan(T, s, lim)

\* the ring held no such cell: grow until cell s exists and is free
RECURSIVE GrowToFree(_, _)
GrowToFree(T, s) ==
    Only({ IF e.r /= TDICT_OK THEN [t |-> e.t, r |-> TRIE_INDEX_ERROR]
           ELSE IF trieGetCheck(e.t, s) < 0 THEN [t |-> e.t, r |-> s]
           ELSE GrowToFree(e.t, s + 1)
           : e \in { trieExpand(T, s) } })

\* second loop: walk the ring from s until the symbols fit
RECURSIVE FitLoop(_, _, _, _)
FitLoop(T, s, first_sym, symbols) ==
    Only({ IF f.r = TDICT_OK THEN [t |-> f.t, r |-> s - first_sym]
           ELSE IF -trieGetCheck(f.t, s) = DA_POOL_FREE
                THEN Only({ IF e.r /= TDICT_OK
                            THEN [t |-> e.t, r |-> TRIE_INDEX_ERROR]
                            ELSE FitLoop(e.t, -trieGetCheck(e.t, s), first_sym, symbols)
                            : e \in { trieExpand(f.t, f.t.dasize + 1) } })
                ELSE FitLoop(f.t, -trieGetCheck(f.t, s), first_sym, symbols)
           : f \in { _daFitSymbols(T, s - first_sym, symbols, 1) } })

\* returns [t, r]: r the base found, or TRIE_INDEX_ERROR
_daFindFreeBase(T, symbols) ==
    LET first_sym == symbols[1]
    IN  Only({ Only({ IF g.r = TRIE_INDEX_ERROR THEN g
                      ELSE FitLoop(g.t, g.r, first_sym, symbols)
                      : g \in { IF s0 = DA_POOL_FREE
                                THEN GrowToFree(T, first_sym + DA_POOL_BEGIN)
                                ELSE [t |-> T, r |-> s0] } })
               : s0 \in { FindFirstFree(T, -trieGetCheck(T, DA_POOL_FREE),
                                        first_sym + DA_POOL_BEGIN) } })

(* ----------------------------- tail pool ------------------------------ *)
\* returns [t, r]: r the exposed index of the slot, or -1
_tailAllocCell(T) ==
    LET reuse == 0 /= T.first_free
        block == IF reuse THEN T.first_free ELSE T.tailsize
        newsize == _trieNextPower(block)
        \* zrealloc: the old slots keep their content, the new ones hold
        \* whatever the allocator left there; next_free of block+1 ..
        \* newsize-1 is then written by the loop
        grown == [i \in 0..(newsize - 1) |->
                    IF i < T.tailsize THEN T.tails[i]
                    ELSE [suffix |-> UninitStr, key |-> UninitKey, val |-> Uninit,
                          next_free |-> IF i = block THEN Uninit
                                        ELSE IF i = newsize - 1 THEN 0
                                        ELSE i + 1]]
        T1 == IF reuse
              THEN [T EXCEPT !.first_free = T.tails[block].next_free]
              ELSE [T EXCEPT !.tails = grown, !.tailsize = newsize,
                             !.first_free = block + 1]
        T2 == [T1 EXCEPT !.tails[block] =
                            [suffix |-> NullStr, key |-> NullKey, val |-> NULL,
                             next_free |-> -1],
                         !.used = T1.used + 1]
    IN  IF ~reuse /\ newsize = block THEN [t |-> T, r |-> -1]
        ELSE [t |-> T2, r |-> block + TAIL_START_BLOCKNO]

\* the scan of _tailFreeCell: [i, j] with j the last chain slot below block
RECURSIVE TailFreeScan(_, _, _, _)
TailFreeScan(T, i, j, block) ==
    IF i /= 0 /\ i < block
    THEN TailFreeScan(T, T.tails[i].next_free, i, block)
    ELSE [i |-> i, j |-> j]

\* _tailFreeCell without the insertion into the free chain: the slot is
\* released but keeps the mark of a slot in use
_tailFreeCellOffChain(T, exposed) ==
    LET block == exposed - TAIL_START_BLOCKNO
        e == T.tails[block]
    IN  IF block < 0 \/ block >= T.tailsize THEN T
        ELSE [T EXCEPT !.tails[block].suffix = NullStr,
                       !.tails[block].key = UninitKey,
                       !.tails[block].val = Uninit,
                       !.log = T.log \o << [cb |-> "keyDestructor", arg |-> e.key],
                                           [cb |-> "valDestructor", arg |-> e.val] >>,
                       !.used = T.used - 1]

_tailFreeCell(T, exposed) ==
    LET block == exposed - TAIL_START_BLOCKNO
        e == T.tails[block]
        \* the suffix is released; keyDestructor and valDestructor are called
        \* on key and val, which are left dangling: their content is
        \* indeterminate from here on
        T1 == [T EXCEPT !.tails[block].suffix = NullStr,
                        !.tails[block].key = UninitKey,
                        !.tails[block].val = Uninit,
                        !.log = T.log \o << [cb |-> "keyDestructor", arg |-> e.key],
                                            [cb |-> "valDestructor", arg |-> e.val] >>]
        sc == TailFreeScan(T1, T1.first_free, 0, block)
        T2 == [T1 EXCEPT !.tails[block].next_free = sc.i]
        T3 == IF 0 /= sc.j
              THEN [T2 EXCEPT !.tails[sc.j].next_free = block]
              ELSE [T2 EXCEPT !.first_free = block]
    IN  IF block < 0 \/ block >= T.tailsize THEN T
        ELSE [T3 EXCEPT !.used = T3.used - 1]

\* zstrdup: the bytes of a C string up to and including its terminator
RECURSIVE CStr(_)
CStr(q) == IF q = << >> \/ Head(q) = 0 THEN << 0 >> ELSE << Head(q) >> \o CStr(Tail(q))

\* returns [t, r]
_trieSetTailSuffix(T, exposed, suffix) ==
    LET index == exposed - TAIL_START_BLOCKNO
    IN  IF index >= 0 /\ index < T.tailsize
        THEN [t |-> [T EXCEPT !.tails[index].suffix =
                                 IF suffix = NullStr THEN NullStr ELSE CStr(suffix)],
              r |-> TDICT_OK]
        ELSE [t |-> T, r |-> TDICT_ERR]

\* returns [t, r]: r the exposed index of the new slot
_trieAddTailSuffix(T, suffix) ==
    Only({ [t |-> _trieSetTailSuffix(a.t, a.r, suffix).t, r |-> a.r]
           : a \in { _tailAllocCell(T) } })

\* returns [r, idx]: TDICT_OK and the advanced suffix index on a match
_trieWalkTail(T, s, suffix_idx, c) ==
    LET suffix == trieGetTailSuffix(T, s)
    IN  IF suffix = NullStr THEN [r |-> TDICT_ERR, idx |-> suffix_idx]
        ELSE IF suffix[suffix_idx + 1] = c
             THEN [r |-> TDICT_OK, idx |-> IF 0 /= c THEN suffix_idx + 1 ELSE suffix_idx]
             ELSE [r |-> TDICT_ERR, idx |-> suffix_idx]

(* ----------------------------- relocation ----------------------------- *)
\* the grandchildren loop of _trieReIndex: cells at old_next_base + c,
\* c < max_c, whose check is old_next are given to new_next
RepointChildren(T, old_next_base, old_next, new_next) ==
    LET max_c == MIN_VAL(TRIE_CHAR_MAX, IndexMax - old_next_base)
        moved == { old_next_base + c : c \in
                     { c \in 0..(max_c - 1) : trieGetCheck(T, old_next_base + c) = old_next } }
    IN  [T EXCEPT !.check = [i \in DOMAIN T.check |->
                               IF i \in moved THEN new_next ELSE T.check[i]]]

RECURSIVE ReIndexLoop(_, _, _, _, _, _)
ReIndexLoop(T, s, old_base, new_base, symbols, i) ==
    IF i > Len(symbols) THEN T
    ELSE LET old_next == old_base + symbols[i]
             new_next == new_base + symbols[i]
             old_next_base == trieGetBase(T, old_next)
             T1 == _daAssignCell(T, new_next)
             T2 == trieSetCheck(T1, new_next, s)
             T3 == trieSetBase(T2, new_next, old_next_base)
             T4 == IF old_next_base > 0
                   THEN RepointChildren(T3, old_next_base, old_next, new_next)
                   ELSE T3
             T5 == _daFreeCell(T4, old_next)
         IN  ReIndexLoop(T5, s, old_base, new_base, symbols, i + 1)

_trieReIndex(T, s, new_base) ==
    Only({ [trieSetBase(T1, s, new_base) EXCEPT !.reloc = TRUE]
           : T1 \in { ReIndexLoop(T, s, trieGetBase(T, s), new_base,
                                  _daFillSymbols(T, s), 1) } })

(* ------------------------------ _daInsert ----------------------------- *)
\* claims the cell and gives it to s: the last two statements of _daInsert
ClaimCell(T, next, s) ==
    [t |-> trieSetCheck(_daAssignCell(T, next), next, s), r |-> next]

\* the branch of _daInsert that relocates BASE[s]
Relocate(T, s, c) ==
    Only({ IF TRIE_INDEX_ERROR = fb.r THEN [t |-> fb.t, r |-> TRIE_INDEX_ERROR]
           ELSE ClaimCell(_trieReIndex(fb.t, s, fb.r), fb.r + c, s)
           : fb \in { _daFindFreeBase(T, symbols_add(_daFillSymbols(T, s), c)) } })

\* returns [t, r]: r the index of the child of s by c, or TRIE_INDEX_ERROR
_daInsert(T, s, c) ==
    LET b == trieGetBase(T, s)
        next == b + c
    IN  IF b > 0
        THEN IF trieGetCheck(T, next) = s THEN [t |-> T, r |-> next]
             ELSE Only({ IF ps.r = 0 THEN Relocate(ps.t, s, c)
                         ELSE ClaimCell(ps.t, next, s)
                         : ps \in { IF b > IndexMax - c
                                    THEN [t |-> T, r |-> 0]
                                    ELSE _daPrepareSpace(T, next) } })
        ELSE Only({ IF TRIE_INDEX_ERROR = fb.r
                    THEN [t |-> fb.t, r |-> TRIE_INDEX_ERROR]
                    ELSE ClaimCell(trieSetBase(fb.t, s, fb.r), fb.r + c, s)
                    : fb \in { _daFindFreeBase(T, << c >>) } })

(* --------------------------- insertion ------------------------------- *)
\* the C string that starts at position p of q
From(q, p) == SubSeq(q, p, Len(q))

\* returns [t, r]: r the exposed index of the new tail slot, or TDICT_ERR
_trieInsertInBranch(T, sep_node, suffix) ==
    Only({ IF TRIE_INDEX_ERROR = d.r THEN [t |-> d.t, r |-> TDICT_ERR]
           ELSE Only({ [t |-> trieSetTailIndex(a.t, d.r, a.r), r |-> a.r]
                       : a \in { _trieAddTailSuffix(d.t,
                                     IF 0 /= suffix[1] THEN Tail(suffix) ELSE suffix) } })
           : d \in { _daInsert(T, sep_node, suffix[1]) } })

\* the fail: label of _trieInsertInTail
InsertInTailFail(T, sep_node, s, old_tail) ==
    [t |-> trieSetTailIndex(_daPrune(T, sep_node, s), sep_node, old_tail),
     r |-> TDICT_ERR]

\* the old tail cut at the separation point and hung below old_da
SplitTail(T, old_da, old_tail, old_suffix, p) ==
    trieSetTailIndex(
        _trieSetTailSuffix(T, old_tail,
            From(old_suffix, IF 0 /= old_suffix[p] THEN p + 1 ELSE p)).t,
        old_da, old_tail)

\* the loop of _trieInsertInTail over the common part of old_suffix (from
\* p) and suffix (from q), then the split at the first difference
RECURSIVE InsertInTailLoop(_, _, _, _, _, _, _, _)
InsertInTailLoop(T, sep_node, s, old_tail, old_suffix, p, suffix, q) ==
    Only({ IF TRIE_INDEX_ERROR = d.r
           THEN InsertInTailFail(d.t, sep_node, s, old_tail)
           ELSE IF old_suffix[p] = suffix[q]
           THEN InsertInTailLoop(d.t, sep_node, d.r, old_tail, old_suffix, p + 1,
                                 suffix, q + 1)
           ELSE _trieInsertInBranch(SplitTail(d.t, d.r, old_tail, old_suffix, p),
                                    s, From(suffix, q))
           : d \in { _daInsert(T, s, old_suffix[p]) } })

_trieInsertInTail(T, sep_node, suffix) ==
    LET old_tail == trieGetTailIndex(T, sep_node)
        old_suffix == trieGetTailSuffix(T, old_tail)
    IN  IF old_suffix = NullStr THEN [t |-> T, r |-> TDICT_ERR]
        ELSE InsertInTailLoop(T, sep_node, sep_node, old_tail, old_suffix, 1, suffix, 1)

\* returns [r, s]: TDICT_OK and the child reached, or TDICT_ERR and s
_trieWalk(T, s, c) ==
    LET next == trieGetBase(T, s) + c
    IN  IF trieGetCheck(T, next) = s THEN [r |-> TDICT_OK, s |-> next]
        ELSE [r |-> TDICT_ERR, s |-> s]

\* the branch walk shared by add, find, delete: follows internalKey from
\* position p while the cell is no terminal.  Returns [r, s, p]: TDICT_ERR
\* at the cell and position where the walk failed, else TDICT_OK at the
\* cell and position where the loop was left.
RECURSIVE WalkBranches(_, _, _, _)
WalkBranches(T, s, internalKey, p) ==
    IF trieBranchEnd(T, s) THEN [r |-> TDICT_OK, s |-> s, p |-> p]
    ELSE LET w == _trieWalk(T, s, internalKey[p])
         IN  IF w.r /= TDICT_OK THEN [r |-> TDICT_ERR, s |-> s, p |-> p]
             ELSE IF 0 = internalKey[p] THEN [r |-> TDICT_OK, s |-> w.s, p |-> p]
             ELSE WalkBranches(T, w.s, internalKey, p + 1)

\* the tail walk shared by add, find, delete: TRUE when internalKey from
\* position p equals the suffix of tail index from suffix_idx
RECURSIVE WalkSuffix(_, _, _, _, _)
WalkSuffix(T, index, suffix_idx, internalKey, p) ==
    LET w == _trieWalkTail(T, index, suffix_idx, internalKey[p])
    IN  IF w.r /= TDICT_OK THEN FALSE
        ELSE IF 0 = internalKey[p] THEN TRUE
        ELSE WalkSuffix(T, index, w.idx, internalKey, p + 1)

\* returns [t, r]: r the exposed tail index of the key, or an error value
_trieAddKey(T, internalKey) ==
    LET b == WalkBranches(T, DA_POOL_ROOT, internalKey, 1)
        index == trieGetTailIndex(T, b.s)
    IN  IF b.r /= TDICT_OK
        THEN _trieInsertInBranch(T, b.s, From(internalKey, b.p))
        ELSE IF ~WalkSuffix(T, index, 0, internalKey, b.p)
        THEN _trieInsertInTail(T, b.s, From(internalKey, b.p))
        ELSE [t |-> T, r |-> index]

\* trieSetTailKey / trieSetTailVal: with a duplicator the macro calls it on
\* the field of the slot and drops what it returns, so the slot keeps what
\* it held; without one the caller's pointer is stored
trieSetTailKey(T, i, key) ==
    IF InTails(T, i)
    THEN IF T.type.keyDup THEN T
         ELSE [T EXCEPT !.tails[i - TAIL_START_BLOCKNO].key = key]
    ELSE T
trieSetTailVal(T, i, val) ==
    IF InTails(T, i)
    THEN IF T.type.valDup THEN T
         ELSE [T EXCEPT !.tails[i - TAIL_START_BLOCKNO].val = val]
    ELSE T

\* trieAdd once the encoder has returned internalKey; returns [t, r, index]
trieAddEncoded(T, internalKey, key, val) ==
    Only({ IF a.r = TRIE_INDEX_ERROR \/ a.r = TDICT_ERR \/ a.r = -1
           THEN [t |-> a.t, r |-> TDICT_ERR, index |-> a.r]
           ELSE [t |-> trieSetTailVal(trieSetTailKey(a.t, a.r, key), a.r, val),
                 r |-> TDICT_OK, index |-> a.r]
           : a \in { _trieAddKey(T, internalKey) } })

trieAdd(T, rng, key, val) == trieAddEncoded(T, encodingFunction(rng, key), key, val)

(* ------------------------------ lookup -------------------------------- *)
\* returns the entry pointer, or NULL
trieFindKey(T, internalKey) ==
    LET b == WalkBranches(T, DA_POOL_ROOT, internalKey, 1)
        s == trieGetTailIndex(T, b.s)
    IN  IF b.r /= TDICT_OK THEN NULL
        ELSE IF ~WalkSuffix(T, s, 0, internalKey, b.p) THEN NULL
        ELSE trieGetTrieEntry(T, s)

trieFind(T, rng, key) == trieFindKey(T, encodingFunction(rng, key))

trieGetVal(T, te) == T.tails[te - TAIL_START_BLOCKNO].val
trieGetKey(T, te) == T.tails[te - TAIL_START_BLOCKNO].key

(* ------------------------------ delete -------------------------------- *)
\* returns [t, r]
trieDelete(T, rng, key) ==
    LET internalKey == encodingFunction(rng, key)
        b == WalkBranches(T, DA_POOL_ROOT, internalKey, 1)
        tt == trieGetTailIndex(T, b.s)
        T1 == _tailFreeCell(T, tt)
        T2 == trieSetBase(T1, b.s, TRIE_INDEX_ERROR)
    IN  IF b.r /= TDICT_OK THEN [t |-> T, r |-> TDICT_ERR]
        ELSE IF ~WalkSuffix(T, tt, 0, internalKey, b.p) THEN [t |-> T, r |-> TDICT_ERR]
        ELSE [t |-> _daPrune(T2, DA_POOL_ROOT, b.s), r |-> TDICT_OK]

(* ------------------------------ replace ------------------------------- *)
\* trieReplace with the two statements swapped: the destructor runs while
\* the entry still holds the old value
trieReplaceFreeFirst(T, te, val) ==
    IF te = NULL THEN [t |-> T, r |-> TDICT_ERR]
    ELSE LET oldval == trieGetVal(T, te)
             T1 == [T EXCEPT !.log = T.log \o
                        << [cb |-> "valDestructor", arg |-> oldval,
                            held |-> trieGetVal(T, te)] >>]
         IN  [t |-> [T1 EXCEPT !.tails[te - TAIL_START_BLOCKNO].val = val],
              r |-> TDICT_OK]

\* returns [t, r]; the log shows the value the entry held when the value
\* destructor ran
trieReplace(T, te, val) ==
    IF te = NULL THEN [t |-> T, r |-> TDICT_ERR]
    ELSE LET oldval == trieGetVal(T, te)
             T1 == [T EXCEPT !.tails[te - TAIL_START_BLOCKNO].val = val]
         IN  [t |-> [T1 EXCEPT !.log = T1.log \o
                        << [cb |-> "valDestructor", arg |-> oldval,
                            held |-> trieGetVal(T1, te)] >>],
              r |-> TDICT_OK]

(* ------------------------------ iterator ------------------------------ *)
push(stack, v) == << v >> \o stack

\* the for loop of getTrieIterator: children pushed from the last symbol
\* down to the first
RECURSIVE PushChildren(_, _, _, _)
PushChildren(stack, b, symbols, i) ==
    IF i < 1 THEN stack
    ELSE PushChildren(push(stack, b + symbols[i]), b, symbols, i - 1)

\* the while loop of getTrieIterator; result lists the terminal cells whose
\* base the iterator will read
RECURSIVE IterLoop(_, _, _)
IterLoop(T, stack, result) ==
    IF stack = << >> THEN result
    ELSE LET s == Head(stack)
             b == trieGetBase(T, s)
             symbols == _daFillSymbols(T, s)
         IN  IF b < 0 THEN IterLoop(T, Tail(stack), Append(result, s))
             ELSE IterLoop(T, PushChildren(Tail(stack), b, symbols, Len(symbols)), result)

\* a trieIterator: hasList is result /= NULL, cur is the position of the
\* list node (0 for the null pointer); out and done observe what trieNext
\* has returned so far, broken that it has read through a null iter->cur
\* and gone on with whatever it found there
NoIter == [ live |-> FALSE, hasList |-> FALSE, result |-> << >>, index |-> -1,
            cur |-> 0, out |-> << >>, done |-> FALSE, broken |-> FALSE ]
EmptyIter == [ NoIter EXCEPT !.live = TRUE ]

getTrieIterator(T, state) ==
    [ EmptyIter EXCEPT !.hasList = TRUE, !.result = IterLoop(T, << state >>, << >>) ]

\* what an uninitialised or dangling suffix pointer may turn out to be: the
\* null pointer, a wild pointer whose read kills the process, or a string
WildStr == << -2 >>
GarbageStrs == { NullStr, WildStr, << 2, 0 >> }
WithGarbage(T, g) ==
    [T EXCEPT !.tails = [i \in DOMAIN T.tails |->
        IF T.tails[i].suffix = UninitStr THEN [T.tails[i] EXCEPT !.suffix = g]
        ELSE T.tails[i]]]

\* the two loops of triePrefixSearch.  Each returns [kind, s]: "enum" to
\* enumerate from s, "none" for the iterator without a list, "tail" to go
\* on with the tail loop at (s, p), "crash" on a read through a wild pointer
RECURSIVE PrefixBranches(_, _, _, _, _)
PrefixBranches(T, s, internalKey, p, hasWildcard) ==
    IF trieBranchEnd(T, s) THEN [kind |-> "tail", s |-> s, p |-> p]
    ELSE IF 0 = internalKey[p] /\ hasWildcard THEN [kind |-> "enum", s |-> s, p |-> p]
    ELSE LET w == _trieWalk(T, s, internalKey[p])
         IN  IF w.r /= TDICT_OK THEN [kind |-> "none", s |-> s, p |-> p]
             ELSE IF 0 = internalKey[p] THEN [kind |-> "tail", s |-> w.s, p |-> p]
             ELSE PrefixBranches(T, w.s, internalKey, p + 1, hasWildcard)

\* the source passes the cell s, not the tail index ss, to _trieWalkTail
RECURSIVE PrefixTail(_, _, _, _, _, _)
PrefixTail(T, s, suffix_idx, internalKey, p, hasWildcard) ==
    IF 0 = internalKey[p] /\ hasWildcard THEN [kind |-> "enum", s |-> s]
    ELSE IF trieGetTailSuffix(T, s) = WildStr THEN [kind |-> "crash", s |-> s]
    ELSE LET w == _trieWalkTail(T, s, suffix_idx, internalKey[p])
         IN  IF w.r /= TDICT_OK THEN [kind |-> "none", s |-> s]
             ELSE IF 0 = internalKey[p] THEN [kind |-> "enum", s |-> s]
             ELSE PrefixTail(T, s, w.idx, internalKey, p + 1, hasWildcard)

\* returns [kind, it]: kind "crash", or the iterator it
triePrefixSearch(T, internalKey, hasWildcard, g) ==
    LET b == PrefixBranches(T, DA_POOL_ROOT, internalKey, 1, hasWildcard)
        tl == IF b.kind = "tail"
              THEN PrefixTail(WithGarbage(T, g), b.s, 0, internalKey, b.p, hasWildcard)
              ELSE [kind |-> b.kind, s |-> b.s]
    IN  IF tl.kind = "enum" THEN [kind |-> "ok", it |-> getTrieIterator(T, tl.s)]
        ELSE IF tl.kind = "none" THEN [kind |-> "ok", it |-> EmptyIter]
        ELSE [kind |-> "crash", it |-> NoIter]

\* iter->index = -*(int *)(iter->cur->value); return trieGetTrieEntry(...)
IterAt(T, it, cur) ==
    LET index == -(T.base[it.result[cur]])
    IN  [kind |-> "ok", r |-> trieGetTrieEntry(T, index),
         it |-> [it EXCEPT !.cur = cur, !.index = index]]

\* returns [kind, r, it]: kind "nullderef" when iter->cur is null and read
trieNext(T, it) ==
    IF ~it.hasList THEN [kind |-> "ok", r |-> NULL, it |-> it]
    ELSE IF it.index < 0
    THEN IF it.result = << >> THEN [kind |-> "nullderef", r |-> NULL, it |-> it]
         ELSE IterAt(T, it, 1)
    ELSE IF it.cur < Len(it.result) THEN IterAt(T, it, it.cur + 1)
    ELSE [kind |-> "ok", r |-> NULL, it |-> it]

(* ------------------------------- empty -------------------------------- *)
\* the trie after _trieReset
trieReset(T) ==
    [T EXCEPT !.base = << >>, !.check = << >>, !.dasize = 0, !.used = 0,
              !.tailsize = 0, !.first_free = 0, !.tails = << >>]

\* the destructor calls of the loop of trieEmpty over slots i .. tailsize-1:
\* a slot whose suffix pointer is not null has its suffix freed and its key
\* and val destroyed
RECURSIVE EmptyLoop(_, _)
EmptyLoop(T, i) ==
    IF i >= T.tailsize THEN << >>
    ELSE IF T.tails[i].suffix /= NullStr
         THEN << [cb |-> "keyDestructor", arg |-> T.tails[i].key],
                 [cb |-> "valDestructor", arg |-> T.tails[i].val] >>
              \o EmptyLoop(T, i + 1)
         ELSE EmptyLoop(T, i + 1)

\* returns [t, wild]; g is what the suffix pointers nobody ever wrote turn
\* out to hold, wild tells that the loop found one of them not null and
\* handed it to zfree
trieEmpty(T, g) ==
    [t |-> [trieReset(T) EXCEPT !.log = T.log \o EmptyLoop(WithGarbage(T, g), 0)],
     wild |-> g /= NullStr /\ \E i \in 0..(T.tailsize - 1) : T.tails[i].suffix = UninitStr]

(* ------------------- ownership of keys and values --------------------- *)
AllKeys == Keys \cup BadKeys

\* per key and per value: times handed to the trie by a call that returned
\* OK minus times destroyed; wild: a destructor was called on something
\* that was never handed over
NoOwed == [ key |-> [k \in AllKeys |-> 0], val |-> [v \in Vals |-> 0], wild |-> FALSE ]

Hand(o, key, val) == [o EXCEPT !.key[key] = @ + 1, !.val[val] = @ + 1]
HandVal(o, val) == [o EXCEPT !.val[val] = @ + 1]

\* the destructor callbacks of one call, in the order they were made
RECURSIVE Settle(_, _)
Settle(o, log) ==
    IF log = << >> THEN o
    ELSE LET c == Head(log)
         IN  Settle(IF c.cb = "keyDestructor"
                    THEN IF c.arg \in AllKeys THEN [o EXCEPT !.key[c.arg] = @ - 1]
                         ELSE [o EXCEPT !.wild = TRUE]
                    ELSE IF c.arg \in Vals THEN [o EXCEPT !.val[c.arg] = @ - 1]
                         ELSE [o EXCEPT !.wild = TRUE],
                    Tail(log))

(* ------------------------- the state machine -------------------------- *)
RetName(r) == IF r = TDICT_OK THEN "OK" ELSE "ERR"

\* what the last call was and gave: op, its result, whether the reference
\* map held its key when it was made, whether it relocated a node, and for
\* trieReplace the destructor callbacks it made
Call(op, ret, had, T) ==
    [ op |-> op, ret |-> ret, had |-> had, reloc |-> T.reloc,
      log |-> IF op = "replace" THEN T.log ELSE << >> ]

SetTrie(T) ==
    /\ base' = T.base
    /\ check' = T.check
    /\ dasize' = T.dasize
    /\ used' = T.used
    /\ tails' = T.tails
    /\ tailsize' = T.tailsize
    /\ first_free' = T.first_free

\* what the duplicators of a type return: a new object, distinct from
\* every key and value a caller holds
KeyDup(key) == << -2 >> \o key
ValDup(val) == val + NumVals

\* the optional callbacks of a type: keyDup and valDup absent or present
NoDups == [keyDup |-> FALSE, valDup |-> FALSE]
Types == [keyDup : BOOLEAN, valDup : BOOLEAN]

\* the caller uses the trie between trieCreate and trieEmpty, and makes no
\* call while an iterator is open
Ready == alive /\ ~iter.live /\ dasize /= 0

\* trieCreate with one of the alphabets, for a build with ceiling imax and
\* a type of types
InitWith(imax, types) ==
    /\ index_max = imax
    /\ type \in types
    /\ owed = NoOwed
    /\ range \in Ranges
    /\ base = trieSetup.base
    /\ check = trieSetup.check
    /\ dasize = trieSetup.dasize
    /\ used = trieSetup.used
    /\ tails = trieSetup.tails
    /\ tailsize = trieSetup.tailsize
    /\ first_free = trieSetup.first_free
    /\ ref = << >>
    /\ iter = NoIter
    /\ last = Call("create", "OK", FALSE, trieSetup)
    /\ alive = TRUE
    /\ ops = 0

Init == InitWith(TRIE_INDEX_MAX, { NoDups })

Stored == DOMAIN ref
Without(f, k) == [x \in (DOMAIN f) \ { k } |-> f[x]]

\* trieAdd(t, key, val) with a key of the alphabet
Add(key, val) ==
    /\ Ready
    /\ ops < MaxOps
    /\ ops' = ops + 1
    /\ used < MaxUsed
    /\ key \in Stored \/ Cardinality(Stored) < MaxKeys
    /\ \E a \in { trieAdd(Trie, range, key, val) } :
           /\ SetTrie(a.t)
           /\ last' = Call("add", RetName(a.r), key \in Stored, a.t)
           /\ owed' = Settle(IF a.r = TDICT_OK THEN Hand(owed, key, val) ELSE owed,
                              a.t.log)
           /\ ref' = IF key \in Stored \/ a.r /= TDICT_OK THEN ref
                     ELSE ref @@ (key :> val)
    /\ UNCHANGED << range, iter, alive, index_max, type >>

\* trieAdd of a key the reference map does not hold
AddFresh(key, val) == key \notin Stored /\ Add(key, val)

\* what the read through the encoder's null pointer may give: the process
\* dies, or the bytes at address 0 read as an empty string
GarbageKeys == { << 0 >> }

\* trieAdd(t, key, val) with a key the encoder refuses
AddBad(key, val, crash, g) ==
    /\ Ready
    /\ ops < MaxOps
    /\ ops' = ops + 1
    /\ used < MaxUsed
    /\ encodingFunction(range, key) = EncodeFail
    /\ IF crash
       THEN /\ alive' = FALSE
            /\ last' = Call("addbad", "crash", FALSE, Trie)
            /\ UNCHANGED << trieVars, owed >>
       ELSE /\ \E a \in { trieAddEncoded(Trie, g, key, val) } :
                   /\ SetTrie(a.t)
                   /\ last' = Call("addbad", RetName(a.r), FALSE, a.t)
                   /\ owed' = Settle(IF a.r = TDICT_OK THEN Hand(owed, key, val)
                                      ELSE owed, a.t.log)
            /\ UNCHANGED alive
    /\ UNCHANGED << range, ref, iter, index_max, type >>

\* what trieDelete(t, key) does to the trie and to the reference map
DeleteCall(key) ==
    /\ Ready
    /\ \E d \in { trieDelete(Trie, range, key) } :
           /\ SetTrie(d.t)
           /\ last' = Call("delete", RetName(d.r), key \in Stored, d.t)
           /\ owed' = Settle(owed, d.t.log)
    /\ ref' = Without(ref, key)
    /\ UNCHANGED << range, iter, alive, index_max, type >>

\* trieDelete(t, key)
Delete(key) ==
    /\ ops < MaxOps
    /\ ops' = ops + 1
    /\ DeleteCall(key)

\* trieDelete(t, key) of a key the reference map holds; such deletes end by
\* themselves and are not counted
DeleteStored(key) ==
    /\ key \in Stored
    /\ ops' = ops
    /\ DeleteCall(key)

\* trieReplace(t, trieFind(t, key), val)
Replace(key, val) ==
    /\ Ready
    /\ ops < MaxOps
    /\ ops' = ops + 1
    /\ \E te \in { trieFind(Trie, range, key) } :
         \E r \in { trieReplace(Trie, te, val) },
           ekey \in { IF te = NULL THEN NullKey ELSE trieGetKey(Trie, te) } :
           /\ SetTrie(r.t)
           /\ last' = Call("replace", RetName(r.r), key \in Stored, r.t)
           /\ owed' = Settle(IF r.r = TDICT_OK THEN HandVal(owed, val) ELSE owed,
                              r.t.log)
           /\ ref' = IF te /= NULL /\ ekey \in Stored
                     THEN [ref EXCEPT ![ekey] = val] ELSE ref
    /\ UNCHANGED << range, iter, alive, index_max, type >>

\* sizes trieExpand is called with
ExpandSizes == { -1, 0, 3, 4, 7, 13, TRIE_INDEX_MAX }

\* trieExpand(t, size)
Expand(size) ==
    /\ Ready
    /\ ops < MaxOps
    /\ ops' = ops + 1
    /\ \E e \in { trieExpand(Trie, size) } :
           /\ SetTrie(e.t)
           /\ last' = Call("expand", RetName(e.r), FALSE, e.t)
    /\ UNCHANGED << range, ref, iter, alive, index_max, type, owed >>

\* trieEmpty(t, NULL); handing zfree a pointer that no allocation returned
\* kills the process or goes unnoticed
Empty(g, crash) ==
    /\ Ready
    /\ ops < MaxOps
    /\ ops' = ops + 1
    /\ \E e \in { trieEmpty(Trie, g) } :
           IF e.wild /\ crash
           THEN /\ alive' = FALSE
                /\ last' = Call("empty", "crash", FALSE, Trie)
                /\ UNCHANGED << trieVars, owed >>
           ELSE /\ SetTrie(e.t)
                /\ last' = Call("empty", "OK", FALSE, e.t)
                /\ owed' = Settle(owed, e.t.log)
                /\ UNCHANGED alive
    /\ ref' = << >>
    /\ UNCHANGED << range, iter, index_max, type >>

\* triePrefixSearch(t, pattern): the walk sees the symbols of p and the
\* terminator; hasWildcard tells whether the pattern held a '*'
PrefixSearch(p, hasWildcard, g) ==
    /\ Ready
    /\ \E ps \in { triePrefixSearch(Trie, encodingFunction(range, p), hasWildcard, g) } :
           IF ps.kind = "crash"
           THEN alive' = FALSE /\ UNCHANGED iter
           ELSE iter' = ps.it /\ UNCHANGED alive
    /\ UNCHANGED << range, ref, trieVars, last, ops, index_max, type, owed >>

\* trieNext(iter); reading through a null iter->cur kills the process or
\* yields a garbage entry pointer
IterNext(crash) ==
    /\ alive /\ iter.live
    /\ ~iter.broken
    /\ LET n == trieNext(Trie, iter)
       IN  IF n.kind = "nullderef"
           THEN IF crash
                THEN alive' = FALSE /\ UNCHANGED iter
                ELSE /\ iter' = [iter EXCEPT !.out = Append(iter.out, Uninit),
                                              !.broken = TRUE]
                     /\ UNCHANGED alive
           ELSE /\ iter' = [n.it EXCEPT
                              !.out = IF n.r = NULL THEN iter.out ELSE Append(iter.out, n.r),
                              !.done = (n.r = NULL)]
                /\ UNCHANGED alive
    /\ UNCHANGED << range, ref, trieVars, last, ops, index_max, type, owed >>

\* trieReleaseIterator(iter)
IterRelease ==
    /\ alive /\ iter.live
    /\ iter' = NoIter
    /\ UNCHANGED << range, ref, trieVars, last, alive, ops, index_max, type, owed >>

Next ==
    \/ \E key \in Keys, val \in Vals : Add(key, val)
    \/ \E key \in BadKeys, val \in Vals, crash \in BOOLEAN, g \in GarbageKeys :
          AddBad(key, val, crash, g)
    \/ \E key \in Keys : Delete(key)
    \/ \E key \in Keys, val \in Vals : Replace(key, val)
    \/ \E p \in Keys, hasWildcard \in BOOLEAN, g \in GarbageStrs :
          PrefixSearch(p, hasWildcard, g)
    \/ \E crash \in BOOLEAN : IterNext(crash)
    \/ IterRelease
    \/ \E size \in ExpandSizes : Expand(size)
    \/ \E g \in GarbageStrs, crash \in BOOLEAN : Empty(g, crash)

Spec == Init /\ [][Next]_vars

\* adds of pairwise distinct keys on a fresh trie
NextAdd == \E key \in Keys, val \in Vals : AddFresh(key, val)
SpecAdd == Init /\ [][NextAdd]_vars

\* adds of keys not currently stored, and deletes
NextAddDel ==
    \/ \E key \in Keys, val \in Vals : AddFresh(key, val)
    \/ \E key \in Keys : Delete(key)
SpecAddDel == Init /\ [][NextAddDel]_vars

\* adds, and adds of keys the encoder refuses
NextBad ==
    \/ \E key \in Keys, val \in Vals : Add(key, val)
    \/ \E key \in BadKeys, val \in Vals, crash \in BOOLEAN, g \in GarbageKeys :
          AddBad(key, val, crash, g)
SpecBad == Init /\ [][NextBad]_vars

\* adds of any key of the alphabet, deletes and replaces
NextMut ==
    \/ \E key \in Keys, val \in Vals : Add(key, val)
    \/ \E key \in Keys : Delete(key)
    \/ \E key \in Keys, val \in Vals : Replace(key, val)
SpecMut == Init /\ [][NextMut]_vars

\* adds, and iterators over what they have built
NextIter ==
    \/ \E key \in Keys, val \in Vals : Add(key, val)
    \/ \E p \in Keys, hasWildcard \in BOOLEAN, g \in GarbageStrs :
          PrefixSearch(p, hasWildcard, g)
    \/ \E crash \in BOOLEAN : IterNext(crash)
    \/ IterRelease
SpecIter == Init /\ [][NextIter]_vars

\* adds of keys not currently stored, and deletes of stored keys until
\* none is left
NextClear ==
    \/ \E key \in Keys, val \in Vals : AddFresh(key, val)
    \/ \E key \in Keys : DeleteStored(key)
SpecClear == Init /\ [][NextClear]_vars

\* adds, deletes and replaces, ended by trieEmpty
NextEmpty ==
    \/ \E key \in Keys, val \in Vals : Add(key, val)
    \/ \E key \in Keys : Delete(key)
    \/ \E key \in Keys, val \in Vals : Replace(key, val)
    \/ \E g \in GarbageStrs, crash \in BOOLEAN : Empty(g, crash)
SpecEmpty == Init /\ [][NextEmpty]_vars

\* adds on a trie whose type has or lacks keyDup and valDup
InitDup == InitWith(TRIE_INDEX_MAX, Types)
SpecDup == InitDup /\ [][NextAdd]_vars

\* the operations that change the double array: adds, deletes and expands
NextDA ==
    \/ \E key \in Keys, val \in Vals : AddFresh(key, val)
    \/ \E key \in Keys : Delete(key)
    \/ \E size \in ExpandSizes : Expand(size)
SpecDA == Init /\ [][NextDA]_vars

\* adds and deletes on a build whose index ceiling is SmallIndexMax
InitCap == InitWith(SmallIndexMax, { NoDups })
SpecCap == InitCap /\ [][NextAddDel]_vars

(* --------------------- what the caller observes ----------------------- *)
\* the value find gives for key k: the val of the entry, NULL for no entry
FindVal(T, rng, k) ==
    LET te == trieFind(T, rng, k)
    IN  IF te = NULL THEN NULL ELSE trieGetVal(T, te)

\* find agrees with the reference map on every key of the alphabet
AgreesWithRef ==
    \A k \in Keys :
        FindVal(Trie, range, k) = (IF k \in Stored THEN ref[k] ELSE NULL)

(* ------------------------------ claims -------------------------------- *)
\* C1: after any sequence of adds of pairwise distinct keys on a fresh trie,
\* every add has returned OK, find of every added key gives the value it
\* was added with, and find of every key never added gives none.
C1_AddFindRoundTrip ==
    /\ last.op = "add" => last.ret = "OK"
    /\ AgreesWithRef

\* C2: after any interleaving of adds of keys not currently stored and
\* deletes, delete returned OK exactly when the reference map held the key,
\* add returned OK, and find gives for every key what the reference map
\* holds for it (none for a deleted key, the new value for a key added
\* again).
C2_AgreesWithReferenceMap ==
    /\ last.op = "delete" => (last.ret = "OK" <=> last.had)
    /\ last.op = "add" => last.ret = "OK"
    /\ \A k \in Keys :
          (IF k \in Stored THEN ref[k] ELSE NULL) = FindVal(Trie, range, k)

\* C3: an add of a key that is stored (the reference map holds it and find
\* gives its entry) returns ERR, and find gives the same value afterwards.
C3_DuplicateAddRejected ==
    [][(last'.op = "add" /\ last'.had) =>
       \A key \in Keys, val \in Vals :
         (Add(key, val) /\ key \in Stored /\ trieFind(Trie, range, key) /= NULL)
            => /\ last'.ret = "ERR"
               /\ FindVal(TrieAfter, range, key) = FindVal(Trie, range, key)]_vars

\* p is a prefix of k
IsPrefix(p, k) == Len(p) <= Len(k) /\ SubSeq(k, 1, Len(p)) = p

\* the external key of an entry pointer trieNext returns
EntryKey(T, e) == IF InTails(T, e) THEN trieGetKey(T, e) ELSE NullKey

\* the keys of the entries the result list of an iterator will give
ResultKeys(T, it) ==
    [i \in 1..Len(it.result) |->
        EntryKey(T, trieGetTrieEntry(T, -(T.base[it.result[i]])))]

\* C4: prefix_search(p*) on a trie built by adds returns an iterator whose
\* entries are exactly the stored keys that have prefix p, each once, also
\* when p ends inside the tail suffix of a key.
C4_PrefixSearchExact ==
    [][(~iter.live /\ (iter'.live \/ ~alive')) =>
       \A p \in Keys, g \in GarbageStrs :
         PrefixSearch(p, TRUE, g)
            => /\ alive'
               /\ LET ks == ResultKeys(Trie, iter')
                  IN  /\ SeqRange(ks) = { k \in Stored : IsPrefix(p, k) }
                      /\ Len(ks) = Cardinality(SeqRange(ks))]_vars

\* a before b in lexicographic order of the symbols, 0 before every symbol
RECURSIVE LexLess(_, _)
LexLess(a, b) ==
    IF a = << >> THEN b /= << >>
    ELSE IF b = << >> THEN FALSE
    ELSE \/ Head(a) < Head(b)
         \/ Head(a) = Head(b) /\ LexLess(Tail(a), Tail(b))

\* the encoded key of the i-th entry the live iterator has returned
OutKey(i) == encodingFunction(range, EntryKey(Trie, iter.out[i]))

\* C5: the entries a live iterator has returned so far are in strictly
\* ascending lexicographic order of their encoded keys, the terminator 0
\* before every symbol.
C5_IteratorAscending ==
    iter.live => \A i \in 1..(Len(iter.out) - 1) : LexLess(OutKey(i), OutKey(i + 1))

\* C6: every trieNext on an iterator of triePrefixSearch returns without
\* failing; it gives an entry not given before, or null, and once it has
\* given null it gives null again and nothing else.
C6_NextOnceThenNull ==
    [][iter.live =>
       \A crash \in BOOLEAN :
         IterNext(crash)
            => /\ alive'
               /\ ~iter'.broken
               /\ Len(iter'.out) = Cardinality(SeqRange(iter'.out))
               /\ iter.done => (iter'.done /\ iter'.out = iter.out)]_vars

\* C7: after an add that relocates the children of a node, every key that
\* find gave a value for before the add still has that value, and the key
\* added is found with the value added.
C7_RelocationKeepsKeys ==
    [][(last'.op = "add" /\ last'.reloc) =>
       \A key \in Keys, val \in Vals :
         (key \notin Stored /\ ref' = ref @@ (key :> val) /\ AddFresh(key, val))
            => /\ FindVal(TrieAfter, range, key) = val
               /\ \A k \in Stored :
                     FindVal(TrieAfter, range, k) = FindVal(Trie, range, k)]_vars

\* C8: delete of a key the reference map does not hold returns ERR and
\* leaves base, check, the tail pool, dasize, used and first_free as they
\* were.
C8_DeleteAbsentIsNoOp ==
    [][(last'.op = "delete" /\ ~last'.had) =>
       \A key \in Keys :
         (Delete(key) /\ key \notin Stored)
            => (last'.ret = "ERR" /\ UNCHANGED trieVars)]_vars

\* C9: trieReplace with the null entry returns ERR, calls no destructor and
\* changes nothing; with an entry it returns OK, changes nothing but the val
\* of that entry, calls the value destructor exactly once, on the old value
\* and while the entry already holds the new one, and find of the key then
\* gives the new value.
C9_ReplaceContract ==
    [][last'.op = "replace" =>
       \A key \in Keys, val \in Vals :
         Replace(key, val)
            => LET te == trieFind(Trie, range, key)
               IN  IF te = NULL
                   THEN /\ last'.ret = "ERR"
                        /\ last'.log = << >>
                        /\ UNCHANGED trieVars
                   ELSE /\ last'.ret = "OK"
                        /\ last'.log = << [cb |-> "valDestructor",
                                           arg |-> trieGetVal(Trie, te),
                                           held |-> val] >>
                        /\ tails' = [tails EXCEPT ![te - TAIL_START_BLOCKNO].val = val]
                        /\ UNCHANGED << base, check, dasize, used, tailsize, first_free >>
                        /\ FindVal(TrieAfter, range, key) = val]_vars

\* a replace has put a new value where a different one was
C9_Witness ==
    /\ last.op = "replace" /\ last.ret = "OK" /\ last.had
    /\ Len(last.log) = 1
    /\ last.log[1].arg \in Vals /\ last.log[1].held \in Vals
    /\ last.log[1].arg /= last.log[1].held

\* C10: add of a key with a byte outside every range returns ERR and leaves
\* the trie as it was.
C10_AddInvalidByteRejected ==
    [][last'.op = "addbad" =>
       \A key \in BadKeys, val \in Vals, crash \in BOOLEAN, g \in GarbageKeys :
         AddBad(key, val, crash, g)
            => (alive' /\ last'.ret = "ERR" /\ UNCHANGED trieVars)]_vars

\* the cells of the pool that hold a node: s >= DA_POOL_BEGIN, check[s] >= 0
InUseCells(T) == { s \in DA_POOL_BEGIN..(T.dasize - 1) : T.check[s] >= 0 }

RECURSIVE RingBlock(_, _, _)
RingBlock(T, st, n) ==
    IF n = 0 \/ st.at = DA_POOL_FREE \/ ~InDA(T, st.at) THEN st
    ELSE RingBlock(T, [at |-> -T.check[st.at], seen |-> st.seen \cup { st.at },
                       turns |-> st.turns + 1], n - 1)

\* the walk in blocks of 32 turns
RECURSIVE RingBlocks(_, _, _)
RingBlocks(T, st, blocks) ==
    IF blocks = 0 \/ st.at = DA_POOL_FREE \/ ~InDA(T, st.at) THEN st
    ELSE RingBlocks(T, RingBlock(T, st, 32), blocks - 1)

\* following -check from cell 1 until it is back at cell 1, for at most
\* dasize turns
RingWalk(T) ==
    RingBlocks(T, [at |-> -T.check[DA_POOL_FREE], seen |-> {}, turns |-> 0],
               (T.dasize \div 32) + 1)

\* the cells of the pool that are free: s >= DA_POOL_BEGIN, check[s] < 0
FreeCells(T) == { s \in DA_POOL_BEGIN..(T.dasize - 1) : T.check[s] < 0 }

\* C12: after create, add, delete and expand, following -check from cell 1
\* comes back to cell 1 after visiting exactly the free cells of the pool,
\* each once, and for every cell s on the ring -base[-check[s]] = s.
C12_FreeRing ==
    (alive /\ dasize /= 0) =>
       LET w == RingWalk(Trie)
           ring == w.seen \cup { DA_POOL_FREE }
       IN  /\ w.at = DA_POOL_FREE
           /\ w.seen = FreeCells(Trie)
           /\ w.turns = Cardinality(w.seen)
           /\ \A s \in ring : -base[-check[s]] = s

\* a delete has put a cell back on the ring in front of a cell in use
C12_Witness ==
    /\ alive /\ last.op = "delete" /\ last.ret = "OK"
    /\ \E s \in FreeCells(Trie), u \in InUseCells(Trie) : s < u /\ u < -check[s]

\* C13: after create, add, delete and expand, every in-use cell c of the
\* pool has a parent p = check[c] that is the root or an in-use cell, with
\* base[p] > 0 and c - base[p] a symbol in 0..255; so no two in-use cells
\* are the child of one parent by one symbol.
C13_ParentLinks ==
    (alive /\ dasize /= 0) =>
       \A c \in InUseCells(Trie) :
          LET p == check[c]
          IN  /\ p = DA_POOL_ROOT \/ p \in InUseCells(Trie)
              /\ base[p] > 0
              /\ c - base[p] \in 0..TRIE_CHAR_MAX

\* the terminal cells: in-use cells of the pool whose base is negative
TerminalCells(T) == { s \in InUseCells(T) : T.base[s] < 0 }

\* the tail slot cell s points to
SlotOf(T, s) == -T.base[s] - TAIL_START_BLOCKNO

\* the tail slots in use
UsedSlots(T) == { i \in 0..(T.tailsize - 1) : T.tails[i].next_free = -1 }

C15_AllDeletedLeavesNothing ==
    (alive /\ last.op = "delete" /\ Stored = {}) =>
       /\ InUseCells(Trie) = {}
       /\ used = 0

\* n more steps of following next_free; st is [at, seq]: the slot the walk
\* is at and the slots it has left, in order.  The chain ends at 0.
RECURSIVE ChainWalk(_, _, _)
ChainWalk(T, st, n) ==
    IF n = 0 \/ st.at = 0 \/ st.at < 0 \/ st.at >= T.tailsize THEN st
    ELSE ChainWalk(T, [at |-> T.tails[st.at].next_free, seq |-> Append(st.seq, st.at)],
                   n - 1)

\* the slots of the chain that starts at first_free
FreeChain(T) == ChainWalk(T, [at |-> T.first_free, seq |-> << >>], T.tailsize + 1).seq

\* C16: after every add and delete, a tail slot is in use exactly when its
\* next_free is -1 (it is in use when a terminal cell points to it), and
\* the chain from first_free visits the slots out of use, each once, in
\* ascending order; so once every key is deleted it holds every slot,
\* slot 0 too.
C16_TailFreeChain ==
    (alive /\ dasize /= 0) =>
       LET chain == FreeChain(Trie)
           inuse == { SlotOf(Trie, s) : s \in TerminalCells(Trie) }
       IN  /\ \A i \in 0..(tailsize - 1) : i \in inuse <=> tails[i].next_free = -1
           /\ SeqRange(chain) = (0..(tailsize - 1)) \ inuse
           /\ \A i \in 1..(Len(chain) - 1) : chain[i] < chain[i + 1]

\* C17: over any sequence of adds, replaces and deletes ended by empty, no
\* destructor is called on anything that was not handed to the trie, no
\* key or value is destroyed more often than it was handed over by a call
\* that returned OK, empty returns, and after empty each has been
\* destroyed exactly as often as it was handed over.
C17_DestroyedExactlyOnce ==
    /\ ~owed.wild
    /\ \A k \in AllKeys : owed.key[k] >= 0
    /\ \A v \in Vals : owed.val[v] >= 0
    /\ last.op = "empty" => (alive /\ owed = NoOwed)

\* the cells the array had before the step keep base and check, cell 0
\* (whose check is the number of cells) and the ring cells aside
InUseKept ==
    \A s \in InUseCells(Trie) \cup { DA_POOL_ROOT } :
        base'[s] = base[s] /\ check'[s] = check[s]

\* the new cells dasize .. dasize'-1 are free and follow, in ascending
\* order, the cell that was last on the ring before the step
NewCellsAppended ==
    /\ \A s \in dasize..(dasize' - 1) : check'[s] < 0
    /\ -check'[-base[DA_POOL_FREE]] = dasize
    /\ \A s \in dasize..(dasize' - 2) : -check'[s] = s + 1
    /\ -check'[dasize' - 1] = DA_POOL_FREE
    /\ \A s \in FreeCells(Trie) \ { -base[DA_POOL_FREE] } : check'[s] = check[s]

\* C18: expand(t, size) with size <= 0 or size >= TRIE_INDEX_MAX returns
\* ERR and changes nothing; otherwise it returns OK with dasize >= size,
\* leaves base and check of every in-use cell as they were, and when it
\* grows the array the new cells are free and appended in ascending order
\* after the last cell of the ring.
C18_ExpandContract ==
    [][last'.op = "expand" =>
       \A size \in ExpandSizes :
         Expand(size)
            => IF size <= 0 \/ size >= TRIE_INDEX_MAX
               THEN last'.ret = "ERR" /\ UNCHANGED trieVars
               ELSE /\ last'.ret = "OK"
                    /\ dasize' >= size /\ dasize' >= dasize
                    /\ InUseKept
                    /\ UNCHANGED << used, tails, tailsize, first_free >>
                    /\ IF dasize' > dasize THEN NewCellsAppended
                       ELSE UNCHANGED << base, check >>]_vars

\* an add and then an expand that has grown the array to 24 cells
C18_Witness ==
    /\ last.op = "expand" /\ last.ret = "OK" /\ ops = 2
    /\ InUseCells(Trie) /= {}
    /\ dasize = 24 /\ check[0] = dasize

\* the smallest power of two that is greater than n
RECURSIVE PowerOfTwoAbove(_, _)
PowerOfTwoAbove(i, n) == IF i > n THEN i ELSE PowerOfTwoAbove(2 * i, n)

\* C19: when expand(t, size) grows the double array its new size is the
\* smallest power of two greater than size, and when an add grows the tail
\* pool for the slot index tailsize its new size is the smallest power of
\* two greater than that index.
C19_GrowthPowerOfTwo ==
    [][/\ (last'.op = "expand" /\ dasize' > dasize) =>
            \A size \in ExpandSizes :
               Expand(size) => dasize' = PowerOfTwoAbove(1, size)
       /\ tailsize' > tailsize => tailsize' = PowerOfTwoAbove(1, tailsize)]_vars

\* C20: after an add of (key, val) that returned OK, the entry of key holds
\* in key and val what keyDup and valDup returned for key and val when the
\* type has them, and key and val themselves when it has not.
C20_AddStoresDuplicates ==
    [][(last'.op = "add" /\ last'.ret = "OK") =>
       \A key \in Keys, val \in Vals :
         AddFresh(key, val)
            => LET te == trieFind(TrieAfter, range, key)
               IN  /\ te /= NULL
                   /\ trieGetKey(TrieAfter, te) = (IF type.keyDup THEN KeyDup(key) ELSE key)
                   /\ trieGetVal(TrieAfter, te) = (IF type.valDup THEN ValDup(val) ELSE val)]_vars

\* the internal symbols an arc can carry under the alphabet of the trie:
\* the terminator and the symbols of the key bytes
ArcSymbols ==
    { 0 } \cup ({ alphaCharToTrie(range, 1, 0, b) : b \in KeyBytes } \ { ALPHA_CHAR_ERROR })

\* the nodes of the trie: the root and the in-use cells of the pool
Nodes(T) == { DA_POOL_ROOT } \cup InUseCells(T)

\* the cells that are children of s
ChildrenOf(T, s) == { n \in InUseCells(T) : T.check[n] = s }

\* C21: on every trie that adds, deletes and expands build, _daInsert(s, c)
\* for a node s with base[s] > 0 whose cell base[s] + c is free or at or
\* past the end of the array (the cell dasize too) returns base[s] + c,
\* claims that cell for s, leaves base[s] as it was and moves no child of s.
C21_InsertClaimsTargetCell ==
    (alive /\ dasize /= 0) =>
       \A s \in Nodes(Trie), c \in ArcSymbols :
          LET next == base[s] + c
          IN  (/\ base[s] > 0
               /\ next < IndexMax
               /\ next >= dasize \/ check[next] < 0)
              => \E d \in { _daInsert(Trie, s, c) } :
                    /\ d.r = next
                    /\ d.t.dasize > next
                    /\ d.t.check[next] = s
                    /\ d.t.base[s] = base[s]
                    /\ ~d.t.reloc
                    /\ \A n \in ChildrenOf(Trie, s) : d.t.check[n] = s

\* the symbols by which node s has a child: those c of 0..255 for which
\* the cell base[s] + c names s as its parent
ChildSymbols(T, s) ==
    { c \in 0..TRIE_CHAR_MAX : trieGetCheck(T, T.base[s] + c) = s }

\* C22: after create, add and delete, for every node s with base[s] > 0,
\* _daHasChildren(s) is true exactly when some symbol of 0..255, the
\* symbol 255 too, leads from s to a child, and _daFillSymbols(s) lists
\* exactly those symbols in ascending order.
C22_ChildScanCoversAllSymbols ==
    (alive /\ dasize /= 0) =>
       \A s \in Nodes(Trie) :
          base[s] > 0 =>
             /\ _daHasChildren(Trie, s) <=> ChildSymbols(Trie, s) /= {}
             /\ _daFillSymbols(Trie, s) = SortedSeq(ChildSymbols(Trie, s))

\* the in-use cells that are no terminal and have no child
ChildlessNonTerminals(T) ==
    { s \in InUseCells(T) : T.base[s] >= 0 /\ (T.base[s] = 0 \/ ChildSymbols(T, s) = {}) }

\* the terminal cell of a stored key: the one that points to its entry
TerminalCellOf(T, rng, key) ==
    CHOOSE s \in TerminalCells(T) : -T.base[s] = trieFind(T, rng, key)

\* the cell s and the chain of its ancestors that lose their last child
\* when s goes: the walk up stops at the root and at the first ancestor
\* that has another child
RECURSIVE PruneChain(_, _, _)
PruneChain(T, s, gone) ==
    LET p == T.check[s]
    IN  IF p = DA_POOL_ROOT \/ p \notin InUseCells(T) \/ ChildrenOf(T, p) /= { s }
        THEN gone \cup { s }
        ELSE PruneChain(T, p, gone \cup { s })

\* C23: after create, add and delete every in-use cell of the pool is a
\* terminal or has a child; and a delete of a stored key frees exactly the
\* terminal cell of the key and the chain of its ancestors left without a
\* child, up to the root or the first ancestor that keeps another child.
C23_PruneLeavesNoChildlessNode ==
    /\ []((alive /\ dasize /= 0) => ChildlessNonTerminals(Trie) = {})
    /\ [][(last'.op = "delete" /\ last'.ret = "OK") =>
          \A key \in Stored :
            (Delete(key) /\ trieFind(Trie, range, key) /= NULL)
               => InUseCells(TrieAfter)
                     = InUseCells(Trie) \ PruneChain(Trie, TerminalCellOf(Trie, range, key), {})]_vars

\* the tail slots out of use
UnusedSlots(T) == (0..(T.tailsize - 1)) \ UsedSlots(T)

\* C24: an add that returns OK for a key not stored, made while some slot
\* of the tail pool is out of use, leaves tailsize as it was and puts the
\* key into a slot that was out of use.
C24_TailGrowsOnlyWhenFull ==
    [][(last'.op = "add" /\ last'.ret = "OK" /\ UnusedSlots(Trie) /= {}) =>
       \A key \in Keys, val \in Vals :
         AddFresh(key, val)
            => /\ tailsize' = tailsize
               /\ trieFind(TrieAfter, range, key) - TAIL_START_BLOCKNO \in UnusedSlots(Trie)]_vars

\* the symbol lists _daFindFreeBase is asked to place: the non-empty sets
\* of arc symbols, in ascending order
SymbolLists == { SortedSeq(S) : S \in (SUBSET ArcSymbols) \ { {} } }

\* base b places symbols on trie T below the index ceiling: each cell
\* b + symbols[i] is below the ceiling and is free or past the array
FitsBelowCeiling(T, b, symbols) ==
    \A i \in 1..Len(symbols) :
        LET n == b + symbols[i]
        IN  n < IndexMax /\ (n >= T.dasize \/ T.check[n] < 0)

RECURSIVE RingSeqBlock(_, _, _)
RingSeqBlock(T, st, n) ==
    IF n = 0 \/ st.at = DA_POOL_FREE \/ ~InDA(T, st.at) THEN st
    ELSE RingSeqBlock(T, [at |-> -T.check[st.at], seq |-> Append(st.seq, st.at)], n - 1)

RECURSIVE RingSeqBlocks(_, _, _)
RingSeqBlocks(T, st, blocks) ==
    IF blocks = 0 \/ st.at = DA_POOL_FREE \/ ~InDA(T, st.at) THEN st
    ELSE RingSeqBlocks(T, RingSeqBlock(T, st, 32), blocks - 1)

RingSeq(T) ==
    RingSeqBlocks(T, [at |-> -T.check[DA_POOL_FREE], seq |-> << >>],
                  (T.dasize \div 32) + 1)

\* C26: after create, add, delete and expand, following -check from cell 1
\* visits free cells of strictly increasing index until it is back at
\* cell 1.
C26_FreeRingAscending ==
    (alive /\ dasize /= 0) =>
       \E w \in { RingSeq(Trie) } :
          /\ w.at = DA_POOL_FREE
          /\ \A i \in 1..(Len(w.seq) - 1) : w.seq[i] < w.seq[i + 1]

\* a delete has put a cell back on the ring between two free cells
C26_Witness ==
    /\ alive /\ last.op = "delete" /\ last.ret = "OK"
    /\ \E s \in FreeCells(Trie) :
          /\ -base[s] /= DA_POOL_FREE /\ -check[s] /= DA_POOL_FREE
          /\ \E u \in InUseCells(Trie) : s < u

\* the arc symbols on the path from the root to cell s, found by walking
\* up through check: the arc into a cell carries the symbol cell - base of
\* its parent.  A walk that leaves the nodes of the trie, meets a parent
\* without a base, or is longer than any key gives the symbol -1.
RECURSIVE PathTo(_, _, _)
PathTo(T, s, depth) ==
    IF s = DA_POOL_ROOT THEN << >>
    ELSE IF depth = 0 \/ s \notin InUseCells(T) THEN << -1 >>
    ELSE LET p == T.check[s]
         IN  IF ~InDA(T, p) \/ T.base[p] <= 0 THEN << -1 >>
             ELSE Append(PathTo(T, p, depth - 1), s - T.base[p])

\* C27: after create, add and delete, for every terminal cell the arc
\* symbols on the path from the root to it, followed by the suffix of the
\* tail record it points to, read as one string up to its terminator, are
\* the encoded key, terminator included, of the key that record holds; a
\* terminal cell entered by the terminator has the empty suffix.
C27_PathAndSuffixSpellKey ==
    (alive /\ dasize /= 0) =>
       \A s \in TerminalCells(Trie) :
          /\ SlotOf(Trie, s) \in 0..(tailsize - 1)
          /\ \E path \in { PathTo(Trie, s, MaxKeyLen + 1) },
                suffix \in { tails[SlotOf(Trie, s)].suffix } :
                /\ suffix /= NullStr
                /\ CStr(path \o suffix)
                      = encodingFunction(range, tails[SlotOf(Trie, s)].key)
                /\ (path /= << >> /\ path[Len(path)] = 0) => suffix = << 0 >>

\* C28: after create and after every add, delete and replace, used is the
\* number of keys stored and the number of tail slots whose next_free is
\* -1; an add of a key that is stored and a delete of a key that is not
\* leave used as it was.
C28_UsedCountsStoredKeys ==
    /\ []((alive /\ dasize /= 0) =>
            /\ used = Cardinality(Stored)
            /\ used = Cardinality(UsedSlots(Trie)))
    /\ [][((last'.op = "add" /\ last'.had) \/ (last'.op = "delete" /\ ~last'.had))
             => used' = used]_vars

====
